---- MODULE Spec2Model ----
(***************************************************************************)
(* i18nator: a CLI that keeps one flat JSON catalog per language           *)
(* (en.json, km.json, zh.json) in step.  Every invocation of the binary    *)
(* runs one cobra command handler (runAdd, runList, runUpdate, runRemove)  *)
(* to completion; the persistent state between invocations is the content  *)
(* of the three files.                                                     *)
(*                                                                         *)
(* Spec     : one action per command handler, on the three catalog files.  *)
(* SaveSpec : saveJSON's os.WriteFile taken apart into its system calls,   *)
(*            next to a concurrent reader of the same path.                *)
(***************************************************************************)
EXTENDS Integers, Sequences, FiniteSets, TLC

\* ------------------------------------------------------------------ bounds
\* Keys are 1..NumKeys; the order of the integers stands for the
\* lexicographic order of the key strings.
NumKeys == 2
\* Source texts the user can pass as <value> are 1..NumValues.
NumValues == 2
\* Environment faults (a failed translation, a failed save, a file edited or
\* deleted by hand) over one behaviour.
MaxFaults == 2
\* A write that fails leaves the first 0..MaxCut tokens of the document.
MaxCut == 1

Keys == 1..NumKeys
Texts == 1..NumValues

\* ----------------------------------------------------------- configuration
\* main.go:18-22, file name -> language code handed to the translator
languages == [f \in {"en.json", "km.json", "zh.json"} |->
                 CASE f = "en.json" -> "en"
                   [] f = "km.json" -> "km"
                   [] f = "zh.json" -> "zh-CN"]

Files == DOMAIN languages

\* ----------------------------------------------------------------- strings
\* A string value: the user's text `src` as typed (via = "raw"), or what the
\* translation endpoint made of it for sl -> tl (via = "sl>tl").
Raw(t) == [src |-> t, via |-> "raw"]

NoStr == [src |-> 0, via |-> ""]

\* The endpoint's answer for q = text, sl, tl (main.go:280-285): a function
\* of the request, different from the text itself.
Endpoint(text, sl, tl) == [src |-> text.src, via |-> sl \o ">" \o tl]

\* ------------------------------------------------------------------- bytes
\* A file's content is a sequence of JSON tokens.
Tok(kind, k, v) == [kind |-> kind, k |-> k, v |-> v]

LBrace == Tok("{", 0, NoStr)

RBrace == Tok("}", 0, NoStr)

Member(k, v) == Tok("member", k, v)

\* "k": 42 -- a member whose value is not a JSON string
NonStringMember(k) == Tok("nonstring", k, NoStr)

NullTok == Tok("null", 0, NoStr)

JunkTok == Tok("junk", 0, NoStr)

\* A path of the file system: absent, or present with content.
Absent == [present |-> FALSE, bytes |-> <<>>]

File(bytes) == [present |-> TRUE, bytes |-> bytes]

\* ------------------------------------------------------------ Catalog Store
EmptyMap == [k \in {} |-> NoStr]

\* sort.Strings(keys), main.go:253-257
RECURSIVE SortedKeys(_)
SortedKeys(S) ==
    IF S = {} THEN <<>>
    ELSE LET m == CHOOSE x \in S : \A y \in S : x <= y
         IN <<m>> \o SortedKeys(S \ {m})

\* json.MarshalIndent of a map[string]string, main.go:264: one member per
\* key, keys ascending.
MarshalIndent(data) ==
    LET ks == SortedKeys(DOMAIN data)
    IN <<LBrace>> \o [i \in 1..Len(ks) |-> Member(ks[i], data[ks[i]])] \o <<RBrace>>

\* json.Unmarshal(fileData, &data), main.go:240-243: ok is FALSE when the
\* bytes are not a flat object of string members; JSON null leaves data nil.
\* A repeated key keeps its last value.
Unmarshal(bytes) ==
    LET n == Len(bytes)
        inner == {i \in 2..(n - 1) : TRUE}
        object == /\ n >= 2
                  /\ bytes[1] = LBrace
                  /\ bytes[n] = RBrace
                  /\ \A i \in inner : bytes[i].kind = "member"
        keysIn == {bytes[i].k : i \in inner}
        lastOf(k) == CHOOSE i \in inner :
                        /\ bytes[i].k = k
                        /\ \A j \in inner : bytes[j].k = k => j <= i
    IN IF bytes = <<NullTok>> THEN [ok |-> TRUE, isNil |-> TRUE, data |-> EmptyMap]
       ELSE IF object
            THEN [ok |-> TRUE, isNil |-> FALSE,
                  data |-> [k \in keysIn |-> bytes[lastOf(k)].v]]
            ELSE [ok |-> FALSE, isNil |-> FALSE, data |-> EmptyMap]

\* main.go:234-249
loadJSON(file) ==
    IF ~file.present THEN EmptyMap
    ELSE LET u == Unmarshal(file.bytes)
         IN IF ~u.ok THEN EmptyMap
            ELSE IF u.isNil THEN EmptyMap
            ELSE u.data

\* What the file system does to one saveJSON call.
FsOutcomes == {"ok", "mkdirFail", "openFail", "writeFail"}

\* main.go:252-274.  os.MkdirAll or the open inside os.WriteFile can fail and
\* leave the file as it was; the open truncates, so a write that fails after
\* it leaves a proper prefix of the new bytes: `cut` tokens of them, and
\* never all.  Returns the file afterwards and whether an error is returned.
saveJSON(file, data, fs, cut) ==
    LET jsonBytes == MarshalIndent(data)
        kept == IF cut < Len(jsonBytes) THEN cut ELSE Len(jsonBytes) - 1
    IN CASE fs = "ok"        -> [file |-> File(jsonBytes), err |-> FALSE]
         [] fs = "mkdirFail" -> [file |-> file, err |-> TRUE]
         [] fs = "openFail"  -> [file |-> file, err |-> TRUE]
         [] fs = "writeFail" -> [file |-> File(SubSeq(jsonBytes, 1, kept)), err |-> TRUE]

\* ------------------------------------------------------ Translation Provider
\* What the HTTP exchange of one googleTranslate call can come to.
\* failed: http.Get fails, the status is not 200, the body cannot be read or
\* is not the nested array expected (the six error returns of lines 289-316,
\* alike but for their message); ok: the segments are there.
Responses == {"failed", "ok"}

\* main.go:277-328.  The request always carries sl = "en" (line 282) and
\* tl = targetLang; every failure returns "" and an error.
googleTranslate(text, targetLang, resp) ==
    LET request == [q |-> text, sl |-> "en", tl |-> targetLang]
    IN IF resp = "ok"
       THEN [text |-> Endpoint(text, "en", targetLang), err |-> FALSE,
             request |-> request]
       ELSE [text |-> NoStr, err |-> TRUE, request |-> request]

\* ------------------------------------------------------------------ faults
\* What the environment does to one invocation: a set of faults, at most one
\* translation fault and one save fault per file.
TranslateFaults ==
    [file : Files \ {"en.json"}, op : {"translate"},
     kind : Responses \ {"ok"}, cut : {0}]

SaveFaults ==
    [file : Files, op : {"save"}, kind : {"mkdirFail", "openFail"}, cut : {0}]
    \cup [file : Files, op : {"save"}, kind : {"writeFail"}, cut : 0..MaxCut]

Faults == TranslateFaults \cup SaveFaults

RECURSIVE FaultSets(_)
FaultSets(n) ==
    IF n = 0 THEN {{}}
    ELSE LET smaller == FaultSets(n - 1)
         IN smaller \cup
            {S \cup {a} : S \in smaller, a \in Faults}

OnePerCall(F) ==
    \A a, b \in F : (a.file = b.file /\ a.op = b.op) => a = b

\* The fault sets one behaviour can meet.
AllFaultSets == {F \in FaultSets(MaxFaults) : OnePerCall(F)}

RespOf(F, file) ==
    IF \E a \in F : a.file = file /\ a.op = "translate"
    THEN (CHOOSE a \in F : a.file = file /\ a.op = "translate").kind
    ELSE "ok"

FsOf(F, file) ==
    IF \E a \in F : a.file = file /\ a.op = "save"
    THEN (CHOOSE a \in F : a.file = file /\ a.op = "save").kind
    ELSE "ok"

CutOf(F, file) ==
    IF \E a \in F : a.file = file /\ a.op = "save"
    THEN (CHOOSE a \in F : a.file = file /\ a.op = "save").cut
    ELSE 0

\* ------------------------------------------------------------------ output
\* One printed line: its kind, the file it is about ("" for none) and the
\* text it shows.
Line(kind, file, text) == [kind |-> kind, file |-> file, text |-> text]

\* ---------------------------------------------------- Synchronization Engine
SetupOutcomes == {"ok", "getwdFail", "mkdirFail"}

\* main.go:79-93
initBasePath(setup) ==
    IF setup = "ok"
    THEN [err |-> FALSE, lines |-> {Line("basePath", "", NoStr)}]
    ELSE [err |-> TRUE, lines |-> {}]

\* Delete gone wrong: the map is cleared instead of losing one key.
DeleteAll(data, key) == EmptyMap

\* delete(data, key), main.go:202
Delete(data, key) == [k \in DOMAIN data \ {key} |-> data[k]]

\* Put gone wrong: a fresh map with the one key instead of the loaded one.
PutAlone(data, key, value) == (key :> value)

\* data[key] = value, main.go:218 and 227
Put(data, key, value) == (key :> value) @@ data

\* processAddOrUpdate without line 225: on a failed translation the empty
\* result is stored, not the English value.
processAddOrUpdateNoFallback(file, name, key, value, isEnglish, langCode, resp, fs, cut) ==
    LET data == loadJSON(file)
        t == googleTranslate(value, langCode, resp)
        stored == IF isEnglish THEN value ELSE t.text
        s == saveJSON(file, (key :> stored) @@ data, fs, cut)
    IN [file |-> s.file,
        err |-> s.err,
        calls |-> IF isEnglish THEN {} ELSE {t.request},
        lines |-> (IF ~isEnglish /\ t.err
                   THEN {Line("translationFailed", name, NoStr)} ELSE {})
                  \cup {Line("ok", name, stored)}]

\* main.go:214-231, on the file at `path` (named `name`).  The result of
\* saveJSON is dropped (lines 219, 228) and the ok line is printed after it
\* either way; `err` is kept here for the record only.
processAddOrUpdate(file, name, key, value, isEnglish, langCode, resp, fs, cut) ==
    LET data == loadJSON(file)
        t == googleTranslate(value, langCode, resp)
        translated == IF t.err THEN value ELSE t.text
        stored == IF isEnglish THEN value ELSE translated
        newData == Put(data, key, stored)
        s == saveJSON(file, newData, fs, cut)
    IN [file |-> s.file,
        err |-> s.err,
        calls |-> IF isEnglish THEN {} ELSE {t.request},
        lines |-> (IF ~isEnglish /\ t.err
                   THEN {Line("translationFailed", name, NoStr)} ELSE {})
                  \cup {Line("ok", name, stored)}]

\* removeFrom that only ever touches the reference file.
removeFromReferenceOnly(file, name, key, fs, cut) ==
    LET data == loadJSON(file)
        s == saveJSON(file, [k \in DOMAIN data \ {key} |-> data[k]], fs, cut)
    IN IF key \in DOMAIN data /\ name = "en.json"
       THEN [file |-> s.file, err |-> s.err, saved |-> TRUE,
             lines |-> {Line("removed", name, NoStr)}]
       ELSE [file |-> file, err |-> FALSE, saved |-> FALSE,
             lines |-> {Line("notFound", name, NoStr)}]

\* One pass of the loop of main.go:197-208.
removeFrom(file, name, key, fs, cut) ==
    LET data == loadJSON(file)
        newData == Delete(data, key)
        s == saveJSON(file, newData, fs, cut)
    IN IF key \in DOMAIN data
       THEN [file |-> s.file, err |-> s.err, saved |-> TRUE,
             lines |-> {Line("removed", name, NoStr)}]
       ELSE [file |-> file, err |-> FALSE, saved |-> FALSE,
             lines |-> {Line("notFound", name, NoStr)}]

\* ------------------------------------------------------------------- state
VARIABLES
    files,      \* file name -> the file at basePath/<name>
    cmd,        \* the last invocation: [name, key, value]
    out,        \* the lines it printed
    exitCode,   \* the exit status of its process
    calls,      \* the requests it sent to the translation endpoint
    loaded,     \* the files it passed to loadJSON
    written,    \* the files it passed to saveJSON
    failed,     \* the files whose saveJSON returned an error
    listing,    \* runList's entries, in the order printed
    faults,     \* environment faults so far
    disk,       \* SaveSpec: the file at the path being saved
    oldDisk,    \* SaveSpec: that file before the save
    saving,     \* SaveSpec: the data handed to saveJSON
    wpc,        \* SaveSpec: where os.WriteFile stands
    seen        \* SaveSpec: what the reader's last os.ReadFile returned

cliVars == <<files, cmd, out, exitCode, calls, loaded, written, failed, listing, faults>>

saveVars == <<disk, oldDisk, saving, wpc, seen>>

vars == <<files, cmd, out, exitCode, calls, loaded, written, failed, listing,
          faults, disk, oldDisk, saving, wpc, seen>>

NoCmd == [name |-> "none", key |-> 0, value |-> NoStr]

\* What a handler hands back: the files afterwards and what it did.  `hit`
\* are the faults of F that took effect.
Outcome(fls, lines, cl, ld, wr, fl, lst, hit) ==
    [files |-> fls, out |-> lines, calls |-> cl, loaded |-> ld, written |-> wr,
     failed |-> fl, listing |-> lst, hit |-> hit]

\* The loop of main.go:114-117 and 171-174 over `languages`.  Go ranges over
\* the map in an unspecified order; each pass reads and writes its own file
\* only, so the passes are taken together.
addOrUpdateAll(fls, key, value, F, first, done) ==
    LET p == [f \in Files |->
                processAddOrUpdate(fls[f], f, key, value, f = "en.json",
                                   languages[f], RespOf(F, f), FsOf(F, f), CutOf(F, f))]
    IN Outcome([f \in Files |-> p[f].file],
               first \cup UNION {p[f].lines : f \in Files} \cup {Line(done, "", NoStr)},
               UNION {p[f].calls : f \in Files},
               Files, Files, {f \in Files : p[f].err}, <<>>,
               F)

\* runAdd without the check of lines 105-111.
runAddUnchecked(fls, key, value, setup, F) ==
    LET init == initBasePath(setup)
    IN IF init.err
       THEN Outcome(fls, {Line("setupError", "", NoStr)}, {}, {}, {}, {}, <<>>, {})
       ELSE addOrUpdateAll(fls, key, value, F, init.lines, "added")

\* main.go:96-120
runAdd(fls, key, value, setup, F) ==
    LET init == initBasePath(setup)
        enData == loadJSON(fls["en.json"])
    IN IF init.err
       THEN Outcome(fls, {Line("setupError", "", NoStr)}, {}, {}, {}, {}, <<>>, {})
       ELSE IF key \in DOMAIN enData
       THEN Outcome(fls, init.lines \cup {Line("alreadyExists", "", NoStr)},
                    {}, {"en.json"}, {}, {}, <<>>, {})
       ELSE addOrUpdateAll(fls, key, value, F, init.lines, "added")

\* runUpdate without the check of lines 162-168.
runUpdateUnchecked(fls, key, value, setup, F) ==
    LET init == initBasePath(setup)
    IN IF init.err
       THEN Outcome(fls, {Line("setupError", "", NoStr)}, {}, {}, {}, {}, <<>>, {})
       ELSE addOrUpdateAll(fls, key, value, F, init.lines, "updated")

\* main.go:153-177
runUpdate(fls, key, value, setup, F) ==
    LET init == initBasePath(setup)
        enData == loadJSON(fls["en.json"])
    IN IF init.err
       THEN Outcome(fls, {Line("setupError", "", NoStr)}, {}, {}, {}, {}, <<>>, {})
       ELSE IF key \notin DOMAIN enData
       THEN Outcome(fls, init.lines \cup {Line("doesNotExist", "", NoStr)},
                    {}, {"en.json"}, {}, {}, <<>>, {})
       ELSE addOrUpdateAll(fls, key, value, F, init.lines, "updated")

\* main.go:180-211
runRemove(fls, key, setup, F) ==
    LET init == initBasePath(setup)
        enData == loadJSON(fls["en.json"])
        p == [f \in Files |-> removeFrom(fls[f], f, key, FsOf(F, f), CutOf(F, f))]
    IN IF init.err
       THEN Outcome(fls, {Line("setupError", "", NoStr)}, {}, {}, {}, {}, <<>>, {})
       ELSE IF key \notin DOMAIN enData
       THEN Outcome(fls, init.lines \cup {Line("doesNotExist", "", NoStr)},
                    {}, {"en.json"}, {}, {}, <<>>, {})
       ELSE Outcome([f \in Files |-> p[f].file],
                    init.lines \cup UNION {p[f].lines : f \in Files}
                        \cup {Line("removedAll", "", NoStr)},
                    {}, Files, {f \in Files : p[f].saved},
                    {f \in Files : p[f].err}, <<>>,
                    {a \in F : a.op = "save" /\ p[a.file].saved})

\* main.go:123-150
runList(fls, setup) ==
    LET init == initBasePath(setup)
        data == loadJSON(fls["en.json"])
        keys == SortedKeys(DOMAIN data)
    IN IF init.err
       THEN Outcome(fls, {Line("setupError", "", NoStr)}, {}, {}, {}, {}, <<>>, {})
       ELSE IF Cardinality(DOMAIN data) = 0
       THEN Outcome(fls, init.lines \cup {Line("noKeys", "", NoStr)},
                    {}, {"en.json"}, {}, {}, <<>>, {})
       ELSE Outcome(fls, init.lines \cup {Line("found", "", NoStr)},
                    {}, {"en.json"}, {}, {},
                    [i \in 1..Len(keys) |-> <<keys[i], data[keys[i]]>>], {})

\* ----------------------------------------------------------------- actions
\* main.go:26-76: cobra runs the handler; Execute returns nil when the
\* handler returns, so the process ends with status 0.
Ran(c, r, F) ==
    /\ r.hit = F
    /\ files' = r.files
    /\ cmd' = c
    /\ out' = r.out
    /\ exitCode' = 0
    /\ calls' = r.calls
    /\ loaded' = r.loaded
    /\ written' = r.written
    /\ failed' = r.failed
    /\ listing' = r.listing
    /\ faults' = faults + Cardinality(F)
    /\ UNCHANGED saveVars

\* The faults a behaviour has left.
Affordable == {F \in AllFaultSets : faults + Cardinality(F) <= MaxFaults}

\* After a failed initBasePath the handler returns: nothing is left to fail.
Reachable(setup) == IF setup = "ok" THEN Affordable ELSE {{}}

RunAdd ==
    \E key \in Keys, t \in Texts, setup \in SetupOutcomes :
      \E F \in Reachable(setup) :
        \E r \in {runAdd(files, key, Raw(t), setup, F)} :
            Ran([name |-> "add", key |-> key, value |-> Raw(t)], r, F)

RunUpdate ==
    \E key \in Keys, t \in Texts, setup \in SetupOutcomes :
      \E F \in Reachable(setup) :
        \E r \in {runUpdate(files, key, Raw(t), setup, F)} :
            Ran([name |-> "update", key |-> key, value |-> Raw(t)], r, F)

RunRemove ==
    \E key \in Keys, setup \in SetupOutcomes :
      \E F \in Reachable(setup) :
        \E r \in {runRemove(files, key, setup, F)} :
            Ran([name |-> "remove", key |-> key, value |-> NoStr], r, F)

RunList ==
    \E setup \in SetupOutcomes :
        \E r \in {runList(files, setup)} :
            Ran([name |-> "list", key |-> 0, value |-> NoStr], r, {})

\* main.go:38, 55, 64, 72-75: a command with the wrong number of arguments
\* (or an unknown one) makes Execute return an error; no handler runs.
RunUsageError ==
    /\ cmd' = [name |-> "usage", key |-> 0, value |-> NoStr]
    /\ out' = {Line("usageError", "", NoStr)}
    /\ exitCode' = 1
    /\ calls' = {}
    /\ loaded' = {}
    /\ written' = {}
    /\ failed' = {}
    /\ listing' = <<>>
    /\ UNCHANGED <<files, faults>>
    /\ UNCHANGED saveVars

\* What a file can be after someone other than the tool touched it: deleted,
\* not JSON, JSON null, an object with a non-string value.
ForeignFiles ==
    {Absent, File(<<JunkTok>>), File(<<NullTok>>),
     File(<<LBrace, NonStringMember(1), RBrace>>)}

\* The files are plain files of the working tree: between two invocations
\* they can be edited or deleted by hand (main.go:235-247 is what meets it).
ExternalEdit ==
    /\ faults < MaxFaults
    /\ \E f \in Files, d \in ForeignFiles :
          /\ files[f] # d
          /\ files' = [files EXCEPT ![f] = d]
    /\ faults' = faults + 1
    /\ cmd' = NoCmd
    /\ out' = {}
    /\ exitCode' = 0
    /\ calls' = {}
    /\ loaded' = {}
    /\ written' = {}
    /\ failed' = {}
    /\ listing' = <<>>
    /\ UNCHANGED saveVars

\* A fresh working tree: no catalog yet, nothing run.
Init ==
    /\ files = [f \in Files |-> Absent]
    /\ cmd = NoCmd
    /\ out = {}
    /\ exitCode = 0
    /\ calls = {}
    /\ loaded = {}
    /\ written = {}
    /\ failed = {}
    /\ listing = <<>>
    /\ faults = 0
    /\ disk = Absent
    /\ oldDisk = Absent
    /\ saving = EmptyMap
    /\ wpc = "idle"
    /\ seen = Absent

Next ==
    \/ RunAdd
    \/ RunList
    \/ RunUpdate
    \/ RunRemove
    \/ RunUsageError
    \/ ExternalEdit

Spec == Init /\ [][Next]_vars

\* ------------------------------------------------- saveJSON, call by call
\* The maps a catalog can hold: keys to the user's texts.
Catalogs == UNION {[D -> {Raw(t) : t \in Texts}] : D \in SUBSET Keys}

\* One saveJSON(path, saving) from any file at path; `seen` is what another
\* process got from its last os.ReadFile(path).
SaveInit ==
    /\ files = [f \in Files |-> Absent]
    /\ cmd = NoCmd
    /\ out = {}
    /\ exitCode = 0
    /\ calls = {}
    /\ loaded = {}
    /\ written = {}
    /\ failed = {}
    /\ listing = <<>>
    /\ faults = 0
    /\ disk \in ForeignFiles \cup {File(MarshalIndent(m)) : m \in Catalogs}
    /\ oldDisk = disk
    /\ saving \in Catalogs
    /\ wpc = "marshalled"
    /\ seen = disk

\* main.go:269
SaveMkdirAll ==
    /\ wpc = "marshalled"
    /\ \/ wpc' = "open"
       \/ wpc' = "failed"
    /\ UNCHANGED <<disk, oldDisk, saving, seen>>
    /\ UNCHANGED cliVars

\* main.go:273, os.WriteFile: OpenFile(name, O_WRONLY|O_CREATE|O_TRUNC, perm)
\* empties the file in place.
WriteFileOpen ==
    /\ wpc = "open"
    /\ \/ /\ disk' = File(<<>>)
          /\ wpc' = "write"
       \/ /\ disk' = disk
          /\ wpc' = "failed"
    /\ UNCHANGED <<oldDisk, saving, seen>>
    /\ UNCHANGED cliVars

\* main.go:273, os.WriteFile: f.Write(data) -- write(2) may take the bytes
\* in several pieces, and may fail after any of them.
WriteFileWrite ==
    /\ wpc = "write"
    /\ LET jsonBytes == MarshalIndent(saving)
           have == Len(disk.bytes)
       IN \/ \E n \in (have + 1)..Len(jsonBytes) :
                /\ disk' = File(SubSeq(jsonBytes, 1, n))
                /\ wpc' = IF n = Len(jsonBytes) THEN "close" ELSE "write"
          \/ /\ disk' = disk
             /\ wpc' = "failed"
    /\ UNCHANGED <<oldDisk, saving, seen>>
    /\ UNCHANGED cliVars

\* main.go:273, os.WriteFile: f.Close()
WriteFileClose ==
    /\ wpc = "close"
    /\ wpc' = "done"
    /\ UNCHANGED <<disk, oldDisk, saving, seen>>
    /\ UNCHANGED cliVars

\* main.go:235, in another process: os.ReadFile of the same path.
ReaderReadFile ==
    /\ seen' = disk
    /\ UNCHANGED <<disk, oldDisk, saving, wpc>>
    /\ UNCHANGED cliVars

SaveNext ==
    \/ SaveMkdirAll
    \/ WriteFileOpen
    \/ WriteFileWrite
    \/ WriteFileClose
    \/ ReaderReadFile

SaveSpec == SaveInit /\ [][SaveNext]_vars

\* ================================================================== claims
EN == "en.json"

NonReference == Files \ {EN}

\* The key set of the catalog a file loads as.
KeysOf(file) == DOMAIN loadJSON(file)

\* Cross-catalog key parity.
Parity(fls) == \A f \in Files : KeysOf(fls[f]) = KeysOf(fls[EN])

Said(lines, kind) == Line(kind, "", NoStr) \in lines

SaidOf(lines, kind, f) == \E l \in lines : l.kind = kind /\ l.file = f

\* A step is an invocation of add, update or remove that got past
\* initBasePath.
Mutating == cmd'.name \in {"add", "update", "remove"} /\ Said(out', "basePath")

\* An add or update that met its precondition on the reference catalog.
Proceeds ==
    /\ Said(out', "basePath")
    /\ \/ cmd'.name = "add" /\ cmd'.key \notin KeysOf(files[EN])
       \/ cmd'.name = "update" /\ cmd'.key \in KeysOf(files[EN])

\* C1 -- parity invariant, as its inductive step: an add, update or remove
\* that starts with all key sets equal and in which every save succeeds ends
\* with all key sets equal.  (Init has them equal: every catalog is absent.)
C1_ParityKept ==
    [][(Mutating /\ Parity(files) /\ failed' = {}) => Parity(files')]_vars

\* reached: with one key in every catalog, an add put a second one in each.
C1_Witness ==
    /\ cmd.name = "add"
    /\ Said(out, "added")
    /\ failed = {}
    /\ Parity(files)
    /\ KeysOf(files[EN]) = Keys

\* C2 -- add of a key the reference catalog already has: no request goes to
\* the translation endpoint, saveJSON is not called, every file is byte for
\* byte what it was, and the run does not end with the "added" line.
C2_AddExistingRejected ==
    [][(cmd'.name = "add" /\ cmd'.key \in KeysOf(files[EN]))
         => /\ files' = files
            /\ calls' = {}
            /\ written' = {}
            /\ ~Said(out', "added")
            /\ (Said(out', "basePath") => Said(out', "alreadyExists"))]_vars

C2_Witness ==
    /\ cmd.name = "add"
    /\ Said(out, "alreadyExists")
    /\ cmd.key \in KeysOf(files[EN])
    /\ \E f \in NonReference : cmd.key \in KeysOf(files[f])

\* C3 -- update or remove of a key the reference catalog lacks: saveJSON is
\* not called, every file (a non-reference one that still holds the key too)
\* is what it was, the warning is printed and the exit status is 0.
C3_MissingKeyAborts ==
    [][(Mutating /\ cmd'.name \in {"update", "remove"}
          /\ cmd'.key \notin KeysOf(files[EN]))
         => /\ files' = files
            /\ written' = {}
            /\ calls' = {}
            /\ Said(out', "doesNotExist")
            /\ ~Said(out', "updated")
            /\ ~Said(out', "removedAll")
            /\ exitCode' = 0]_vars

\* reached: a remove was turned away while km.json or zh.json held the key.
C3_Witness ==
    /\ cmd.name = "remove"
    /\ Said(out, "doesNotExist")
    /\ exitCode = 0
    /\ \E f \in NonReference : cmd.key \in KeysOf(files[f])

\* C4 -- translation fallback: in an add or update where the translation for
\* file f failed, every file is still passed to saveJSON, the run ends with
\* its closing line and status 0, and, the save of f succeeding, f's catalog
\* holds the untranslated value under the key; all saves succeeding, every
\* catalog has its former keys plus the key, so parity with the reference
\* catalog is kept.
C4_TranslationFallback ==
    [][\A f \in NonReference :
         (cmd'.name \in {"add", "update"} /\ SaidOf(out', "translationFailed", f))
           => /\ written' = Files
              /\ Said(out', IF cmd'.name = "add" THEN "added" ELSE "updated")
              /\ exitCode' = 0
              /\ f \notin failed'
                   => /\ cmd'.key \in KeysOf(files'[f])
                      /\ loadJSON(files'[f])[cmd'.key] = cmd'.value
              /\ failed' = {}
                   => /\ \A g \in Files : KeysOf(files'[g]) = KeysOf(files[g]) \cup {cmd'.key}
                      /\ Parity(files) => Parity(files')]_vars

\* reached: km.json fell back to the English text while zh.json got its
\* translation.
C4_Witness ==
    /\ cmd.name = "add"
    /\ SaidOf(out, "translationFailed", "km.json")
    /\ ~SaidOf(out, "translationFailed", "zh.json")
    /\ Said(out, "added")
    /\ cmd.key \in KeysOf(files["km.json"])
    /\ loadJSON(files["km.json"])[cmd.key] = cmd.value
    /\ cmd.key \in KeysOf(files["zh.json"])
    /\ loadJSON(files["zh.json"])[cmd.key] = Endpoint(cmd.value, "en", "zh-CN")

\* C5 -- a failed save is reported for its language: a file whose saveJSON
\* returned an error has no success line ("ok", "removed") in the output,
\* and every other file was still processed.
C5_SaveFailureReported ==
    \A f \in failed :
        /\ ~SaidOf(out, "ok", f)
        /\ ~SaidOf(out, "removed", f)
        /\ loaded = Files

\* C6 -- under SaveSpec: whatever a concurrent os.ReadFile returns during a
\* saveJSON is the whole previous document or the whole new one.
C6_ReaderSeesWholeDocument ==
    seen \in {oldDisk, File(MarshalIndent(saving))}

\* C7 -- setup error: the error is printed, nothing is loaded or saved, and
\* the exit status is not 0.
C7_SetupErrorFails ==
    (cmd.name \in {"add", "list", "update", "remove"} /\ ~Said(out, "basePath"))
      => /\ Said(out, "setupError")
         /\ loaded = {}
         /\ written = {}
         /\ calls = {}
         /\ exitCode # 0

\* A file loadJSON turns into the empty catalog for want of a document.
AbsentOrMalformed(file) == ~file.present \/ ~Unmarshal(file.bytes).ok

\* C8 -- lenient load loses nothing: after an add or update in which every
\* save succeeded, a file that was absent or malformed before holds every
\* key of the reference catalog.
C8_LenientLoadKeepsKeys ==
    [][(Proceeds /\ failed' = {})
         => \A f \in Files :
               AbsentOrMalformed(files[f]) => KeysOf(files'[EN]) \subseteq KeysOf(files'[f])]_vars

\* C9 -- remove with the key in the reference catalog and every save
\* succeeding: the run ends with its closing line and status 0, no catalog
\* holds the key afterwards, a file whose catalog lacked the key is not
\* passed to saveJSON and keeps its bytes, and every catalog is its former
\* self less the key.
C9_RemoveSelfHealing ==
    [][(Mutating /\ cmd'.name = "remove" /\ cmd'.key \in KeysOf(files[EN])
          /\ failed' = {})
         => /\ Said(out', "removedAll")
            /\ ~Said(out', "setupError")
            /\ exitCode' = 0
            /\ \A f \in Files :
                  /\ cmd'.key \notin KeysOf(files'[f])
                  /\ cmd'.key \notin KeysOf(files[f])
                       => /\ f \notin written'
                          /\ files'[f] = files[f]
                          /\ SaidOf(out', "notFound", f)
                  /\ cmd'.key \in KeysOf(files[f]) => SaidOf(out', "removed", f)
                  /\ KeysOf(files'[f]) = KeysOf(files[f]) \ {cmd'.key}
                  /\ \A k \in KeysOf(files'[f]) :
                        loadJSON(files'[f])[k] = loadJSON(files[f])[k]]_vars

\* reached: the key was gone from km.json already, was removed from en.json
\* and zh.json, and another key is still in zh.json.
C9_Witness ==
    /\ cmd.name = "remove"
    /\ Said(out, "removedAll")
    /\ failed = {}
    /\ SaidOf(out, "notFound", "km.json")
    /\ SaidOf(out, "removed", EN)
    /\ SaidOf(out, "removed", "zh.json")
    /\ KeysOf(files["zh.json"]) # {}
    /\ \A f \in Files : cmd.key \notin KeysOf(files[f])

\* C10 -- add of a new key, or update of an existing one, every save
\* succeeding: the reference catalog maps the key to the value as given and
\* no request names the reference language as target; every other catalog
\* maps the key to the endpoint's answer for (value, reference code, its own
\* code), or to the value where the translation failed; one request went out
\* per non-reference language; every other key of every catalog keeps its
\* value.
C10_AddUpdatePostcondition ==
    [][(Proceeds /\ failed' = {})
         => /\ cmd'.key \in KeysOf(files'[EN])
            /\ loadJSON(files'[EN])[cmd'.key] = cmd'.value
            /\ calls' = {[q |-> cmd'.value, sl |-> languages[EN], tl |-> languages[f]] :
                            f \in NonReference}
            /\ \A f \in NonReference :
                  /\ cmd'.key \in KeysOf(files'[f])
                  /\ loadJSON(files'[f])[cmd'.key] =
                        IF SaidOf(out', "translationFailed", f)
                        THEN cmd'.value
                        ELSE Endpoint(cmd'.value, languages[EN], languages[f])
            /\ \A f \in Files : \A k \in KeysOf(files[f]) \ {cmd'.key} :
                  /\ k \in KeysOf(files'[f])
                  /\ loadJSON(files'[f])[k] = loadJSON(files[f])[k]]_vars

\* reached: an update rewrote the key in all three files next to another
\* key that stayed.
C10_Witness ==
    /\ cmd.name = "update"
    /\ Said(out, "updated")
    /\ failed = {}
    /\ loadJSON(files[EN])[cmd.key] = cmd.value
    /\ loadJSON(files["km.json"])[cmd.key] = Endpoint(cmd.value, "en", "km")
    /\ loadJSON(files["zh.json"])[cmd.key] = Endpoint(cmd.value, "en", "zh-CN")
    /\ \A f \in Files : KeysOf(files[f]) = Keys

====
